---- MODULE Spec2Model ----
(***************************************************************************)
(* The embedding page of Phoenix (app/src/pages/embedding/EmbeddingPage.tsx)*)
(* as a state machine: the point cloud store, the UMAP query reference held *)
(* by useQueryLoader, the requests in the network, and the handlers of the  *)
(* page (the re-query effect, the response effect, cluster clicks, hovers,  *)
(* tab changes, teardown).                                                  *)
(***************************************************************************)
EXTENDS Integers, Sequences, FiniteSets, TLC

VARIABLES
    page,                 \* "created" | "mounted" | "crashed" | "unmounted"
    embeddingDimensionId, \* useEmbeddingDimensionId()
    selectedTimestamp,    \* useTimeSlice().selectedTimestamp, NoTimestamp when null
    queryReference,       \* useQueryLoader's queryReference: a fetch key, NoRequest when null
    fetchKey,             \* the number of requests issued so far (the last one's key)
    requests,             \* fetch key -> the status of the request handed to the network
    variables,            \* the variables of the last loadQuery call
    store,                \* the point cloud store (usePointCloudContext)
    activeTab,            \* the selected tab of the clusters panel
    settingsEdits,        \* the number of metric and clustering-parameter edits so far
    notifications,        \* the error notifications shown by the notification service
    inferences,           \* useInferences(): the corpus and the reference inferences, Null when absent
    pointCloudProps,      \* the props EmbeddingPage hands to PointCloudProvider
    populatedBy,          \* history: the fetch key whose response setInitialData wrote, or NoRequest
    last                  \* history: the last handler that ran, its argument, the selection before it

vars == <<page, embeddingDimensionId, selectedTimestamp, queryReference, fetchKey,
          requests, variables, store, activeTab, settingsEdits, notifications,
          inferences, pointCloudProps, populatedBy, last>>

(***************************************************************************)
(* Bounds and input sets                                                    *)
(***************************************************************************)
MaxRequests == 3
MaxSettingsEdits == 1

Null == "null"
Undefined == "undefined"
NoRequest == 0
NoTimestamp == 0

DimensionIds == {"dim1", "dim2"}
\* days; primaryInferences.endTime is PrimaryEndTime
PrimaryEndTime == 20
Timestamps == {18}
UMAPChoices ==
    { [minDist |-> 0, nNeighbors |-> 30, nSamples |-> 500],
      [minDist |-> 0, nNeighbors |-> 15, nSamples |-> 500] }
ConfigUMAP == [minDist |-> 0, nNeighbors |-> 30, nSamples |-> 500]
DefaultHDBSCAN ==
    [minClusterSize |-> 10, clusterMinSamples |-> 1, clusterSelectionEpsilon |-> 0]
HDBSCANChoices ==
    { DefaultHDBSCAN,
      [minClusterSize |-> 20, clusterMinSamples |-> 1, clusterSelectionEpsilon |-> 0] }
Metrics ==
    { [type |-> "drift", metric |-> "euclideanDistance", dimension |-> [name |-> Null]],
      [type |-> "retrieval", metric |-> "queryDistance", dimension |-> [name |-> Null]],
      [type |-> "performance", metric |-> "accuracyScore", dimension |-> [name |-> Null]],
      [type |-> "dataQuality", metric |-> "mean", dimension |-> [name |-> "age"]] }
\* metric definitions the switch of getClusterMetricName has no case for
UnhandledMetrics ==
    { [type |-> "drift", metric |-> "cosineDistance", dimension |-> [name |-> Null]],
      [type |-> "retrieval", metric |-> "documentDistance", dimension |-> [name |-> Null]],
      [type |-> "custom", metric |-> "euclideanDistance", dimension |-> [name |-> Null]] }
TabKeys == {"clusters", "configuration"}

(***************************************************************************)
(* Response payloads (EmbeddingPageUMAPQuery$data)                          *)
(***************************************************************************)
Point3D(x, y, z) == [typename |-> "Point3D", x |-> x, y |-> y, z |-> z]
Point2D(x, y) == [typename |-> "Point2D", x |-> x, y |-> y]

RawPoint(id, eventId, coordinates) ==
    [id |-> id, eventId |-> eventId, coordinates |-> coordinates,
     embeddingMetadata |-> [linkToData |-> Null, rawData |-> eventId],
     eventMetadata |-> [predictionId |-> eventId]]

RawCluster(id, eventIds) ==
    [id |-> id, eventIds |-> eventIds, driftRatio |-> 0, primaryToCorpusRatio |-> 0]

\* the metric payload the backend computes for a cluster, in tenths: 0.9 and 0.8
\* for cluster c1, 0.5 and 0.4 for the others
MetricPayload(cluster) ==
    IF cluster.id = "c1"
    THEN [primaryValue |-> 9, referenceValue |-> 8]
    ELSE [primaryValue |-> 5, referenceValue |-> 4]

\* dataQualityMetric @include(if: $fetchDataQualityMetric) and
\* performanceMetric @include(if: $fetchPerformanceMetric) of a cluster
IncludeMetrics(cluster, v) ==
    LET included == {f \in {"dataQualityMetric"} : v.fetchDataQualityMetric}
                      \cup {f \in {"performanceMetric"} : v.fetchPerformanceMetric}
    IN  [f \in DOMAIN cluster \cup included |->
            IF f \in included THEN MetricPayload(cluster) ELSE cluster[f]]

\* the response to a request with the variables v
Delivered(data, v) ==
    [data EXCEPT !.clusters = [i \in DOMAIN @ |-> IncludeMetrics(@[i], v)]]

\* two clusters, one of them listing an event id twice
ResponseA ==
    [hasUMAPPoints |-> TRUE,
     data |-> << RawPoint("p1", "e1", Point3D(1, 2, 3)), RawPoint("p2", "e2", Point3D(0, 0, 1)) >>,
     referenceData |-> << RawPoint("p3", "e3", Point3D(4, 5, 6)) >>,
     corpusData |-> << >>,
     clusters |-> << RawCluster("c1", <<"e1", "e2", "e1">>), RawCluster("c2", <<"e3">>) >>,
     contextRetrievals |-> << >>]

\* a cluster id shared with ResponseA but other members, a cluster with no members
ResponseB ==
    [hasUMAPPoints |-> TRUE,
     data |-> << RawPoint("p4", "e4", Point3D(7, 8, 9)) >>,
     referenceData |-> << RawPoint("p8", "e8", Point3D(2, 2, 2)) >>,
     corpusData |-> << RawPoint("p5", "e5", Point3D(1, 1, 1)) >>,
     clusters |-> << RawCluster("c1", <<"e4">>), RawCluster("c3", << >>) >>,
     contextRetrievals |-> << [queryId |-> "e4", documentId |-> "e5", relevance |-> 1] >>]

\* a 2D coordinate record among the points
ResponseMalformed ==
    [hasUMAPPoints |-> TRUE,
     data |-> << RawPoint("p6", "e6", Point3D(1, 2, 3)), RawPoint("p7", "e7", Point2D(1, 2)) >>,
     referenceData |-> << >>,
     corpusData |-> << >>,
     clusters |-> << RawCluster("c4", <<"e6", "e7">>) >>,
     contextRetrievals |-> << >>]

\* a 2D coordinate record among the corpus points
ResponseMalformedCorpus ==
    [hasUMAPPoints |-> TRUE,
     data |-> << RawPoint("p9", "e9", Point3D(3, 3, 3)) >>,
     referenceData |-> << >>,
     corpusData |-> << RawPoint("p10", "e10", Point2D(4, 4)) >>,
     clusters |-> << RawCluster("c5", <<"e9", "e10">>) >>,
     contextRetrievals |-> << [queryId |-> "e9", documentId |-> "e10", relevance |-> 1] >>]

\* embedding.UMAPPoints is null
ResponseNoUMAPPoints ==
    [hasUMAPPoints |-> FALSE,
     data |-> << >>, referenceData |-> << >>, corpusData |-> << >>,
     clusters |-> << >>, contextRetrievals |-> << >>]

Responses ==
    {ResponseA, ResponseB, ResponseMalformed, ResponseMalformedCorpus, ResponseNoUMAPPoints}

SeqToSet(s) == {s[i] : i \in DOMAIN s}

(***************************************************************************)
(* The point cloud store: its initial state and its mutators                *)
(***************************************************************************)
\* the default props of the three kinds of session
getDefaultRetrievalTroubleshootingPointCloudProps == [defaults |-> "retrievalTroubleshooting"]

getDefaultDriftPointCloudProps == [defaults |-> "drift"]

getDefaultSingleInferenceSetPointCloudProps == [defaults |-> "singleInferenceSet"]

\* {...props, umapParameters: {...umap}}
WithUMAPParameters(props, umap) ==
    [f \in DOMAIN props \cup {"umapParameters"} |->
        IF f = "umapParameters" THEN umap ELSE props[f]]

\* EmbeddingPage: the props of the store, from the inferences of the session
defaultPointCloudPropsReferenceFirst(corpusInferences, referenceInferences) ==
    WithUMAPParameters(
        IF referenceInferences # Null THEN getDefaultDriftPointCloudProps
        ELSE IF corpusInferences # Null
             THEN getDefaultRetrievalTroubleshootingPointCloudProps
             ELSE getDefaultSingleInferenceSetPointCloudProps,
        ConfigUMAP)

defaultPointCloudProps(corpusInferences, referenceInferences) ==
    WithUMAPParameters(
        IF corpusInferences # Null THEN getDefaultRetrievalTroubleshootingPointCloudProps
        ELSE IF referenceInferences # Null
             THEN getDefaultDriftPointCloudProps
             ELSE getDefaultSingleInferenceSetPointCloudProps,
        ConfigUMAP)

\* the sessions: each of the corpus and the reference inferences present or not
Inferences ==
    [corpusInferences : {Null, "corpus"}, referenceInferences : {Null, "reference"}]

InitialStore(metric) ==
    [points |-> << >>, clusters |-> << >>, retrievals |-> << >>,
     selectedClusterId |-> Null, selectedEventIds |-> {}, highlightedClusterId |-> Null,
     errorMessage |-> Null, loading |-> FALSE, colorMode |-> "default",
     metric |-> metric, umapParameters |-> ConfigUMAP,
     clusteringParameters |-> DefaultHDBSCAN]

\* reset(): data, selection, highlight, error and loading back to their empty
\* values; the exploration settings (metric, hyperparameters, color mode) stay
reset(s) ==
    [s EXCEPT !.points = << >>, !.clusters = << >>, !.retrievals = << >>,
              !.selectedClusterId = Null, !.selectedEventIds = {},
              !.highlightedClusterId = Null, !.errorMessage = Null, !.loading = FALSE]

\* PointCloudProvider: the store created from the props and the metric in use
PointCloudProvider(props, metric) ==
    [InitialStore(metric) EXCEPT !.umapParameters = props.umapParameters]

setLoading(s, loading) == [s EXCEPT !.loading = loading]

\* setInitialData({points, clusters, retrievals}): one replacement of the three,
\* which also clears loading and errorMessage
setInitialData(s, d) ==
    [s EXCEPT !.points = d.points, !.clusters = d.clusters, !.retrievals = d.retrievals,
              !.loading = FALSE, !.errorMessage = Null]

setSelectedClusterId(s, id) == [s EXCEPT !.selectedClusterId = id]

setSelectedEventIds(s, ids) == [s EXCEPT !.selectedEventIds = ids]

setHighlightedClusterId(s, id) == [s EXCEPT !.highlightedClusterId = id]

setClusterColorMode(s, mode) == [s EXCEPT !.colorMode = mode]

setErrorMessage(s, msg) == [s EXCEPT !.errorMessage = msg]

setUMAPParameters(s, p) == [s EXCEPT !.umapParameters = p]

setHDBSCANParameters(s, p) == [s EXCEPT !.clusteringParameters = p]

setMetric(s, m) == [s EXCEPT !.metric = m]

\* the metric values of a cluster as the store holds them: the payload of the
\* active metric when the cluster has it, absent (the empty sequence) otherwise
primaryMetricValue(s, cluster) ==
    IF s.metric.type = "dataQuality" /\ "dataQualityMetric" \in DOMAIN cluster
    THEN << cluster.dataQualityMetric.primaryValue >>
    ELSE IF s.metric.type = "performance" /\ "performanceMetric" \in DOMAIN cluster
    THEN << cluster.performanceMetric.primaryValue >>
    ELSE << >>

referenceMetricValue(s, cluster) ==
    IF s.metric.type = "dataQuality" /\ "dataQualityMetric" \in DOMAIN cluster
    THEN << cluster.dataQualityMetric.referenceValue >>
    ELSE IF s.metric.type = "performance" /\ "performanceMetric" \in DOMAIN cluster
    THEN << cluster.performanceMetric.referenceValue >>
    ELSE << >>

getMetric(s) == s.metric

getHDSCANParameters(s) == s.clusteringParameters

Selection(s) ==
    [selectedClusterId |-> s.selectedClusterId, selectedEventIds |-> s.selectedEventIds,
     highlightedClusterId |-> s.highlightedClusterId]

EmptySelection ==
    [selectedClusterId |-> Null, selectedEventIds |-> {}, highlightedClusterId |-> Null]

(***************************************************************************)
(* EmbeddingMain: the time range and the variables of the UMAP query        *)
(***************************************************************************)
endTimePrimaryOnly(ts) == PrimaryEndTime

endTime(ts) == IF ts # NoTimestamp THEN ts ELSE PrimaryEndTime

\* subDays(endTime, 2) .. endTime
timeRange(ts) == [start |-> endTime(ts) - 2, end |-> endTime(ts)]

NoVariables == [id |-> Null]

QueryVariablesSwappedFlags(id, ts, s) ==
    [id |-> id,
     timeRange |-> timeRange(ts),
     umapParameters |-> s.umapParameters,
     clusteringParameters |-> getHDSCANParameters(s),
     fetchDataQualityMetric |-> (getMetric(s).type = "performance"),
     fetchPerformanceMetric |-> (getMetric(s).type = "dataQuality"),
     dataQualityMetricColumnName |->
         IF getMetric(s).type = "dataQuality" THEN getMetric(s).dimension.name ELSE Null,
     performanceMetric |->
         IF getMetric(s).type = "performance" THEN getMetric(s).metric ELSE "accuracyScore",
     fetchPolicy |-> "network-only"]

QueryVariablesNoColumnName(id, ts, s) ==
    [id |-> id,
     timeRange |-> timeRange(ts),
     umapParameters |-> s.umapParameters,
     clusteringParameters |-> getHDSCANParameters(s),
     fetchDataQualityMetric |-> (getMetric(s).type = "dataQuality"),
     fetchPerformanceMetric |-> (getMetric(s).type = "performance"),
     dataQualityMetricColumnName |-> Null,
     performanceMetric |->
         IF getMetric(s).type = "performance" THEN getMetric(s).metric ELSE "accuracyScore",
     fetchPolicy |-> "network-only"]

QueryVariablesStoreOrNetwork(id, ts, s) ==
    [id |-> id,
     timeRange |-> timeRange(ts),
     umapParameters |-> s.umapParameters,
     clusteringParameters |-> getHDSCANParameters(s),
     fetchDataQualityMetric |-> (getMetric(s).type = "dataQuality"),
     fetchPerformanceMetric |-> (getMetric(s).type = "performance"),
     dataQualityMetricColumnName |->
         IF getMetric(s).type = "dataQuality" THEN getMetric(s).dimension.name ELSE Null,
     performanceMetric |->
         IF getMetric(s).type = "performance" THEN getMetric(s).metric ELSE "accuracyScore",
     fetchPolicy |-> "store-or-network"]

QueryVariables(id, ts, s) ==
    [id |-> id,
     timeRange |-> timeRange(ts),
     umapParameters |-> s.umapParameters,
     clusteringParameters |-> getHDSCANParameters(s),
     fetchDataQualityMetric |-> (getMetric(s).type = "dataQuality"),
     fetchPerformanceMetric |-> (getMetric(s).type = "performance"),
     dataQualityMetricColumnName |->
         IF getMetric(s).type = "dataQuality" THEN getMetric(s).dimension.name ELSE Null,
     performanceMetric |->
         IF getMetric(s).type = "performance" THEN getMetric(s).metric ELSE "accuracyScore",
     fetchPolicy |-> "network-only"]

(***************************************************************************)
(* useQueryLoader: the requests and the query reference                     *)
(***************************************************************************)
Outstanding == {k \in DOMAIN requests : requests[k] = "pending"}

\* disposeQuery(): the request behind the query reference is released
disposeQueryKeepsRequest(reqs, qr) == reqs

disposeQuery(reqs, qr) ==
    [k \in DOMAIN reqs |->
        IF k = qr /\ reqs[k] = "pending" THEN "disposed" ELSE reqs[k]]

\* loadQuery(variables, {fetchPolicy}): a new request under the next fetch key
loadQuery(reqs, k) ==
    [j \in DOMAIN reqs \cup {k} |-> IF j = k THEN "pending" ELSE reqs[j]]

\* the requests after one run of the re-query effect: the cleanup of the
\* previous run (disposeQuery), then loadQuery
RequeryRequestsNoDispose(reqs, qr, k) == loadQuery(reqs, k)

RequeryRequests(reqs, qr, k) == loadQuery(disposeQuery(reqs, qr), k)

\* the store after one run of the re-query effect: resetPointCloud(); setLoading(true)
RequeryStoreNoLoading(s) == reset(s)

RequeryStoreNoReset(s) == setLoading(s, TRUE)

RequeryStore(s) == setLoading(reset(s), TRUE)

\* the requests and the store after each call of one run of the effect, in the
\* order of the calls: disposeQuery() of the cleanup, resetPointCloud(),
\* setLoading(true), loadQuery(...)
RequeryStepsLoadFirst(reqs, qr, k, s) ==
    << [requests |-> loadQuery(reqs, k), store |-> s],
       [requests |-> loadQuery(disposeQuery(reqs, qr), k), store |-> s],
       [requests |-> loadQuery(disposeQuery(reqs, qr), k), store |-> reset(s)],
       [requests |-> loadQuery(disposeQuery(reqs, qr), k),
        store |-> setLoading(reset(s), TRUE)] >>

RequerySteps(reqs, qr, k, s) ==
    << [requests |-> disposeQuery(reqs, qr), store |-> s],
       [requests |-> disposeQuery(reqs, qr), store |-> reset(s)],
       [requests |-> disposeQuery(reqs, qr), store |-> setLoading(reset(s), TRUE)],
       [requests |-> loadQuery(disposeQuery(reqs, qr), k),
        store |-> setLoading(reset(s), TRUE)] >>

(***************************************************************************)
(* PointCloudDisplay: the data of the query reference, the normalizer and   *)
(* the effect that writes the store                                        *)
(***************************************************************************)
\* throws unless the coordinates are a Point3D
coordinatesThrowsWrongTag(coordinates) == coordinates.typename # "Point3d"

coordinatesThrows(coordinates) == coordinates.typename # "Point3D"

\* [coordinates.x, coordinates.y, coordinates.z]; a field the record does not
\* have reads as undefined
coordinatesToThreeDimensionalPointSwapped(coordinates) ==
    << coordinates.y, coordinates.x,
       IF "z" \in DOMAIN coordinates THEN coordinates.z ELSE Undefined >>

coordinatesToThreeDimensionalPoint(coordinates) ==
    << coordinates.x, coordinates.y,
       IF "z" \in DOMAIN coordinates THEN coordinates.z ELSE Undefined >>

sourceData(data) == IF data.hasUMAPPoints THEN data.data ELSE << >>

referenceSourceData(data) == IF data.hasUMAPPoints THEN data.referenceData ELSE << >>

corpusSourceData(data) == IF data.hasUMAPPoints THEN data.corpusData ELSE << >>

contextRetrievals(data) == IF data.hasUMAPPoints THEN data.contextRetrievals ELSE << >>

allDataCorpusBeforeReference(data) ==
    sourceData(data) \o corpusSourceData(data) \o referenceSourceData(data)

allData(data) == sourceData(data) \o referenceSourceData(data) \o corpusSourceData(data)

\* the render throws when one coordinate record does
allSourceDataThrowsPrimaryOnly(data) ==
    \E i \in DOMAIN sourceData(data) : coordinatesThrows(sourceData(data)[i].coordinates)

allSourceDataThrows(data) ==
    \E i \in DOMAIN allData(data) : coordinatesThrows(allData(data)[i].coordinates)

allSourceData(data) ==
    [i \in DOMAIN allData(data) |->
        [id |-> allData(data)[i].id,
         eventId |-> allData(data)[i].eventId,
         coordinates |-> allData(data)[i].coordinates,
         embeddingMetadata |-> allData(data)[i].embeddingMetadata,
         eventMetadata |-> allData(data)[i].eventMetadata,
         position |-> coordinatesToThreeDimensionalPoint(allData(data)[i].coordinates),
         metaData |-> [id |-> allData(data)[i].eventId]]]

\* usePreloadedQuery(EmbeddingPageUMAPQuery, queryReference): the display reads
\* the response of request k exactly when k is the query reference it was given
usePreloadedQueryAnyResponse(qr, k) == TRUE

usePreloadedQuery(qr, k) == qr # NoRequest /\ k = qr

\* the useDeepCompareEffect of PointCloudDisplay
DisplayEffectStaleClusters(s, data) ==
    setInitialData(s, [points |-> allSourceData(data), clusters |-> s.clusters,
                       retrievals |-> contextRetrievals(data)])

DisplayEffect(s, data) ==
    setInitialData(s, [points |-> allSourceData(data),
                       clusters |-> IF data.hasUMAPPoints THEN data.clusters ELSE << >>,
                       retrievals |-> contextRetrievals(data)])

(***************************************************************************)
(* ClustersPanelContents: the handlers of a cluster row and of the tabs     *)
(***************************************************************************)
onClickKeepEventIds(s, cluster) ==
    IF s.selectedClusterId # cluster.id
    THEN setSelectedClusterId(s, cluster.id)
    ELSE setSelectedClusterId(s, Null)

onClickNeverClears(s, cluster) ==
    setSelectedEventIds(setSelectedClusterId(s, cluster.id), SeqToSet(cluster.eventIds))

onClick(s, cluster) ==
    IF s.selectedClusterId # cluster.id
    THEN setSelectedEventIds(setSelectedClusterId(s, cluster.id), SeqToSet(cluster.eventIds))
    ELSE setSelectedEventIds(setSelectedClusterId(s, Null), {})

\* the snapshots the store holds during one click, one after each mutator call;
\* the last is onClick(s, cluster)
onClickSnapshots(s, cluster) ==
    IF s.selectedClusterId # cluster.id
    THEN << setSelectedClusterId(s, cluster.id),
            setSelectedEventIds(setSelectedClusterId(s, cluster.id),
                                SeqToSet(cluster.eventIds)) >>
    ELSE << setSelectedClusterId(s, Null),
            setSelectedEventIds(setSelectedClusterId(s, Null), {}) >>

onMouseEnter(s, cluster) == setHighlightedClusterId(s, cluster.id)

onMouseLeaveKeepsHighlight(s, cluster) == s

onMouseLeave(s, cluster) == setHighlightedClusterId(s, Null)

onTabChangeAlwaysHighlight(s, key) == setClusterColorMode(s, "highlight")

onTabChangeInverted(s, key) ==
    IF key = "configuration"
    THEN setClusterColorMode(s, "default")
    ELSE setClusterColorMode(s, "highlight")

onTabChange(s, key) ==
    IF key = "configuration"
    THEN setClusterColorMode(s, "highlight")
    ELSE setClusterColorMode(s, "default")

\* the short name of a performance metric
getMetricShortNameByMetricKey(metricEnum) ==
    CASE metricEnum = "accuracyScore" -> "accuracy"

\* assertUnreachable(x) throws
assertUnreachable(x) == TRUE

\* getClusterMetricName throws in the default branches of its switches
getClusterMetricNameThrowsOuterOnly(metric) ==
    CASE metric.type \in {"dataQuality", "drift", "performance", "retrieval"} -> FALSE
      [] OTHER -> assertUnreachable(metric.type)

getClusterMetricNameThrows(metric) ==
    CASE metric.type = "dataQuality" -> FALSE
      [] metric.type = "drift" ->
            metric.metric # "euclideanDistance" /\ assertUnreachable(metric.metric)
      [] metric.type = "performance" -> FALSE
      [] metric.type = "retrieval" ->
            metric.metric # "queryDistance" /\ assertUnreachable(metric.metric)
      [] OTHER -> assertUnreachable(metric.type)

\* the label; undefined is what the function returns when it leaves a switch
\* through break
getClusterMetricNameNoSuffix(metric) ==
    CASE metric.type = "dataQuality" -> metric.dimension.name
      [] metric.type = "drift" /\ metric.metric = "euclideanDistance" -> "Cluster Drift"
      [] metric.type = "performance" -> getMetricShortNameByMetricKey(metric.metric)
      [] metric.type = "retrieval" /\ metric.metric = "queryDistance" -> "% Query"
      [] OTHER -> Undefined

getClusterMetricName(metric) ==
    CASE metric.type = "dataQuality" -> metric.dimension.name \o " avg"
      [] metric.type = "drift" /\ metric.metric = "euclideanDistance" -> "Cluster Drift"
      [] metric.type = "performance" -> getMetricShortNameByMetricKey(metric.metric)
      [] metric.type = "retrieval" /\ metric.metric = "queryDistance" -> "% Query"
      [] OTHER -> Undefined

\* the props of the ClusterItem of a cluster row
ClusterItemPropsSwappedValues(s, cluster) ==
    [clusterId |-> cluster.id,
     numPoints |-> Len(cluster.eventIds),
     isSelected |-> (s.selectedClusterId = cluster.id),
     driftRatio |-> cluster.driftRatio,
     primaryToCorpusRatio |-> cluster.primaryToCorpusRatio,
     primaryMetricValue |-> referenceMetricValue(s, cluster),
     referenceMetricValue |-> primaryMetricValue(s, cluster),
     metricName |-> getClusterMetricName(s.metric)]

ClusterItemProps(s, cluster) ==
    [clusterId |-> cluster.id,
     numPoints |-> Len(cluster.eventIds),
     isSelected |-> (s.selectedClusterId = cluster.id),
     driftRatio |-> cluster.driftRatio,
     primaryToCorpusRatio |-> cluster.primaryToCorpusRatio,
     primaryMetricValue |-> primaryMetricValue(s, cluster),
     referenceMetricValue |-> referenceMetricValue(s, cluster),
     metricName |-> getClusterMetricName(s.metric)]

\* the rows of the clusters panel: shown while the display is not suspended
DisplayShown ==
    /\ page = "mounted"
    /\ queryReference # NoRequest
    /\ requests[queryReference] = "answered"

\* SelectionPanel: what the component renders for the store s
SelectionPanelByCluster(s) ==
    IF s.selectedClusterId = Null THEN Null ELSE "selection-panel"

SelectionPanel(s) ==
    IF Cardinality(s.selectedEventIds) = 0 THEN Null ELSE "selection-panel"

\* the selection panel is on screen: PointCloudDisplay renders it over the canvas
SelectionPanelShown == DisplayShown /\ SelectionPanel(store) # Null

ClusterRows == IF DisplayShown THEN SeqToSet(store.clusters) ELSE {}

\* the render of the cluster rows of the store s throws
ClusterRowsThrow(s) == s.clusters # << >> /\ getClusterMetricNameThrows(s.metric)

(***************************************************************************)
(* Initial state: the store as PointCloudProvider creates it, no effect run *)
(***************************************************************************)
\* history: the handler that runs, its argument, the selection before it and,
\* for the second of two clicks in a row on a cluster that was not selected
\* before the first, the selection before the first
Did(op, k, id) ==
    [op |-> op, k |-> k, id |-> id, before |-> Selection(store),
     origin |-> IF /\ op = "click" /\ last.op = "click" /\ last.id = id
                   /\ last.before.selectedClusterId # id
                THEN << last.before >> ELSE << >>]

\* EmbeddingPage renders for the session i: the props are computed and the
\* store is created with one of the metrics ms
InitFor(is, ms) ==
    /\ page = "created"
    /\ embeddingDimensionId = "dim1"
    /\ selectedTimestamp = NoTimestamp
    /\ queryReference = NoRequest
    /\ fetchKey = 0
    /\ requests = << >>
    /\ variables = NoVariables
    /\ inferences \in is
    /\ pointCloudProps
          = defaultPointCloudProps(inferences.corpusInferences, inferences.referenceInferences)
    /\ store \in {PointCloudProvider(pointCloudProps, m) : m \in ms}
    /\ activeTab = "clusters"
    /\ settingsEdits = 0
    /\ notifications = {}
    /\ populatedBy = NoRequest
    /\ last = [op |-> "init", k |-> NoRequest, id |-> Null, before |-> EmptySelection,
               origin |-> << >>]

\* a session with corpus and reference inferences
Init ==
    InitFor({[corpusInferences |-> "corpus", referenceInferences |-> "reference"]}, Metrics)

(***************************************************************************)
(* The re-query effect of EmbeddingMain                                     *)
(***************************************************************************)
\* One run of the effect with the inputs id, ts and the store s in which the
\* change of the inputs (if any) is already made: cleanup of the previous run,
\* resetPointCloud(), setLoading(true), loadQuery(...)
Requery(id, ts, s) ==
    /\ fetchKey < MaxRequests
    /\ fetchKey' = fetchKey + 1
    /\ requests' = RequeryRequests(requests, queryReference, fetchKey + 1)
    /\ variables' = QueryVariables(id, ts, RequeryStore(s))
    /\ queryReference' = fetchKey + 1
    /\ store' = RequeryStore(s)
    /\ populatedBy' = NoRequest

\* the first render of EmbeddingMain and the first run of its effect
Mount ==
    /\ page = "created"
    /\ page' = "mounted"
    /\ Requery(embeddingDimensionId, selectedTimestamp, store)
    /\ last' = Did("mount", fetchKey + 1, Null)
    /\ UNCHANGED <<settingsEdits, notifications, inferences, pointCloudProps>>
    /\ UNCHANGED <<embeddingDimensionId, selectedTimestamp, activeTab>>

\* the analyst opens another embedding dimension
SetEmbeddingDimension(id) ==
    /\ page = "mounted"
    /\ id # embeddingDimensionId
    /\ embeddingDimensionId' = id
    /\ Requery(id, selectedTimestamp, store)
    /\ last' = Did("setEmbeddingDimension", fetchKey + 1, Null)
    /\ UNCHANGED <<settingsEdits, notifications, inferences, pointCloudProps>>
    /\ UNCHANGED <<page, selectedTimestamp, activeTab>>

\* the analyst picks a time slice
SetSelectedTimestamp(ts) ==
    /\ page = "mounted"
    /\ ts # selectedTimestamp
    /\ selectedTimestamp' = ts
    /\ Requery(embeddingDimensionId, ts, store)
    /\ last' = Did("setSelectedTimestamp", fetchKey + 1, Null)
    /\ UNCHANGED <<settingsEdits, notifications, inferences, pointCloudProps>>
    /\ UNCHANGED <<page, embeddingDimensionId, activeTab>>

\* the analyst edits the UMAP hyperparameters
SetUMAPParameters(p) ==
    /\ page = "mounted"
    /\ p # store.umapParameters
    /\ Requery(embeddingDimensionId, selectedTimestamp, setUMAPParameters(store, p))
    /\ last' = Did("setUMAPParameters", fetchKey + 1, Null)
    /\ UNCHANGED <<settingsEdits, notifications, inferences, pointCloudProps>>
    /\ UNCHANGED <<page, embeddingDimensionId, selectedTimestamp, activeTab>>

\* the page is left: the effect's cleanup runs
Teardown ==
    /\ page = "mounted"
    /\ page' = "unmounted"
    /\ requests' = disposeQuery(requests, queryReference)
    /\ queryReference' = NoRequest
    /\ last' = Did("teardown", NoRequest, Null)
    /\ UNCHANGED <<settingsEdits, notifications, inferences, pointCloudProps>>
    /\ UNCHANGED <<embeddingDimensionId, selectedTimestamp, fetchKey, variables, store,
                   activeTab, populatedBy>>

(***************************************************************************)
(* The network answers                                                      *)
(***************************************************************************)
Settled(reqs, k, status) ==
    [reqs EXCEPT ![k] = IF reqs[k] = "pending" THEN status ELSE "dropped"]

InFlight == {k \in DOMAIN requests : requests[k] \in {"pending", "disposed"}}

\* An error thrown while PointCloudDisplay renders is caught by nothing in the
\* page: the page is unmounted and the cleanup of the re-query effect runs
Crash(reqs) ==
    /\ page' = "crashed"
    /\ requests' = disposeQuery(reqs, queryReference)
    /\ queryReference' = NoRequest
    /\ UNCHANGED <<store, populatedBy>>

\* The response of request k arrives (of a disposed request too: disposal does
\* not stop the network call). The display renders it when it is the data of
\* its query reference: the normalizer runs, then the effect writes the store
\* and the clusters panel renders a row per cluster.
ResponseArrives(k, data) ==
    /\ k \in InFlight
    /\ last' = Did("response", k, Null)
    /\ UNCHANGED <<settingsEdits, notifications, inferences, pointCloudProps>>
    /\ IF page = "mounted" /\ usePreloadedQuery(queryReference, k)
       THEN IF allSourceDataThrows(data)
            THEN Crash(Settled(requests, k, "answered"))
            ELSE /\ requests' = Settled(requests, k, "answered")
                 /\ store' = DisplayEffect(store, Delivered(data, variables))
                 /\ populatedBy' = k
                 /\ IF ClusterRowsThrow(store')
                    THEN page' = "crashed" /\ queryReference' = NoRequest
                    ELSE UNCHANGED <<page, queryReference>>
       ELSE /\ requests' = Settled(requests, k, "answered")
            /\ UNCHANGED <<page, queryReference, store, populatedBy>>
    /\ UNCHANGED <<embeddingDimensionId, selectedTimestamp, fetchKey, variables, activeTab>>

\* Request k fails (transport or backend error): usePreloadedQuery throws the
\* error while the display renders
RequestFails(k) ==
    /\ k \in InFlight
    /\ last' = Did("failure", k, Null)
    /\ UNCHANGED <<settingsEdits, notifications, inferences, pointCloudProps>>
    /\ IF page = "mounted" /\ usePreloadedQuery(queryReference, k)
       THEN Crash(Settled(requests, k, "failed"))
       ELSE /\ requests' = Settled(requests, k, "failed")
            /\ UNCHANGED <<page, queryReference, store, populatedBy>>
    /\ UNCHANGED <<embeddingDimensionId, selectedTimestamp, fetchKey, variables, activeTab>>

(***************************************************************************)
(* The analyst's gestures on the clusters panel                             *)
(***************************************************************************)
Gesture(op, id, s) ==
    /\ store' = s
    /\ last' = Did(op, NoRequest, id)
    /\ UNCHANGED <<settingsEdits, notifications, inferences, pointCloudProps>>
    /\ UNCHANGED <<page, embeddingDimensionId, selectedTimestamp, queryReference,
                   fetchKey, requests, variables, activeTab, populatedBy>>

ClusterClick(cluster) ==
    /\ cluster \in ClusterRows
    /\ Gesture("click", cluster.id, onClick(store, cluster))

ClusterMouseEnter(cluster) ==
    /\ cluster \in ClusterRows
    /\ Gesture("mouseEnter", cluster.id, onMouseEnter(store, cluster))

ClusterMouseLeave(cluster) ==
    /\ cluster \in ClusterRows
    /\ Gesture("mouseLeave", cluster.id, onMouseLeave(store, cluster))

TabChange(key) ==
    /\ DisplayShown
    /\ activeTab' = key
    /\ store' = onTabChange(store, key)
    /\ last' = Did("tabChange", NoRequest, key)
    /\ UNCHANGED <<settingsEdits, notifications, inferences, pointCloudProps>>
    /\ UNCHANGED <<page, embeddingDimensionId, selectedTimestamp, queryReference,
                   fetchKey, requests, variables, populatedBy>>

Next ==
    \/ Mount
    \/ \E id \in DimensionIds : SetEmbeddingDimension(id)
    \/ \E ts \in Timestamps \cup {NoTimestamp} : SetSelectedTimestamp(ts)
    \/ \E p \in UMAPChoices : SetUMAPParameters(p)
    \/ Teardown
    \/ \E k \in DOMAIN requests, data \in Responses : ResponseArrives(k, data)
    \/ \E k \in DOMAIN requests : RequestFails(k)
    \/ \E cluster \in ClusterRows : ClusterClick(cluster)
    \/ \E cluster \in ClusterRows : ClusterMouseEnter(cluster)
    \/ \E cluster \in ClusterRows : ClusterMouseLeave(cluster)
    \/ \E key \in TabKeys : TabChange(key)

Spec == Init /\ [][Next]_vars

(***************************************************************************)
(* The backend answers: a request that stays the current one is eventually  *)
(* answered with a response the normalizer accepts                          *)
(***************************************************************************)
AnswerCurrent ==
    /\ page = "mounted"
    /\ queryReference # NoRequest
    /\ requests[queryReference] = "pending"
    /\ \E data \in Responses :
          ~allSourceDataThrows(data) /\ ResponseArrives(queryReference, data)

SpecLive == Init /\ [][Next]_vars /\ WF_vars(AnswerCurrent)

(***************************************************************************)
(* The settings the effect reads through store getters                      *)
(***************************************************************************)
\* The effect depends on the functions getMetric and getHDSCANParameters, not on
\* the values they return: an edit of the metric or of the clustering
\* parameters changes the store and does not run the effect.
SettingsEdit(op, s) ==
    /\ page = "mounted"
    /\ settingsEdits < MaxSettingsEdits
    /\ settingsEdits' = settingsEdits + 1
    /\ store' = s
    /\ last' = Did(op, NoRequest, Null)
    /\ UNCHANGED <<page, embeddingDimensionId, selectedTimestamp, queryReference,
                   fetchKey, requests, variables, activeTab, notifications, populatedBy,
                   inferences, pointCloudProps>>

\* the analyst picks another metric in the MetricSelector
SetMetric(m) ==
    /\ m # store.metric
    /\ SettingsEdit("setMetric", setMetric(store, m))

\* the analyst edits the clustering parameters
SetHDBSCANParameters(p) ==
    /\ p # store.clusteringParameters
    /\ SettingsEdit("setHDBSCANParameters", setHDBSCANParameters(store, p))

NextSettings ==
    \/ Next
    \/ \E m \in Metrics : SetMetric(m)
    \/ \E p \in HDBSCANChoices : SetHDBSCANParameters(p)

SpecSettings == Init /\ [][NextSettings]_vars

(***************************************************************************)
(* PointCloudNotifications: errors the store reports and their dismissal    *)
(***************************************************************************)
ErrorMessages == {"failed to fetch"}

\* the effect of PointCloudNotifications after errorMessage changed: notifyError
\* with the message and a Dismiss action, unless the message is null
NotifyEffectNoMessage(shown, errorMessage) ==
    IF errorMessage # Null
    THEN shown \cup {[title |-> "An error occurred", message |-> "", action |-> "Dismiss"]}
    ELSE shown

NotifyEffect(shown, errorMessage) ==
    IF errorMessage # Null
    THEN shown \cup {[title |-> "An error occurred", message |-> errorMessage,
                       action |-> "Dismiss"]}
    ELSE shown

\* the onClick of the Dismiss action
onClickDismissResets(s) == reset(s)

onClickDismiss(s) == setErrorMessage(s, Null)

\* a fetch of the store fails: the store sets its errorMessage
StoreReportsError(msg) ==
    /\ page = "mounted"
    /\ store.errorMessage # msg
    /\ store' = setErrorMessage(store, msg)
    /\ notifications' = NotifyEffect(notifications, msg)
    /\ last' = Did("storeError", NoRequest, Null)
    /\ UNCHANGED <<page, embeddingDimensionId, selectedTimestamp, queryReference,
                   fetchKey, requests, variables, activeTab, settingsEdits, populatedBy,
                   inferences, pointCloudProps>>

\* the analyst clicks Dismiss on a notification: the notification closes
DismissError(n) ==
    /\ n \in notifications
    /\ store' = onClickDismiss(store)
    /\ notifications' = notifications \ {n}
    /\ last' = Did("dismiss", NoRequest, Null)
    /\ UNCHANGED <<page, embeddingDimensionId, selectedTimestamp, queryReference,
                   fetchKey, requests, variables, activeTab, settingsEdits, populatedBy,
                   inferences, pointCloudProps>>

NextNotifications ==
    \/ Next
    \/ \E msg \in ErrorMessages : StoreReportsError(msg)
    \/ \E n \in notifications : DismissError(n)

SpecNotifications == Init /\ [][NextNotifications]_vars

(***************************************************************************)
(* The page under every metric definition, handled by the switch or not     *)
(***************************************************************************)
InitResolver ==
    InitFor({[corpusInferences |-> "corpus", referenceInferences |-> "reference"]},
            Metrics \cup UnhandledMetrics)

SpecResolver == InitResolver /\ [][Next]_vars

(***************************************************************************)
(* The page in every kind of session                                        *)
(***************************************************************************)
InitInferences == InitFor(Inferences, Metrics)

SpecInferences == InitInferences /\ [][Next]_vars

(***************************************************************************)
(* Request lifecycle                                                        *)
(***************************************************************************)
RequeryOps == {"mount", "setEmbeddingDimension", "setSelectedTimestamp", "setUMAPParameters"}

\* C1: the response of a request that has been superseded by a later request is
\* never written: when it arrives the store (and what populated it) stays as it
\* is, and the store is only ever populated by the last issued request.
C1_StaleResponseNeverWritten ==
    /\ [](populatedBy \in {NoRequest, fetchKey})
    /\ [][(last'.op = "response" /\ last'.k < fetchKey)
            => (store' = store /\ populatedBy' = populatedBy)]_vars

\* request A was superseded by B, B's response populated the store, then A's arrived
C1_Witness ==
    /\ last.op = "response"
    /\ last.k < fetchKey
    /\ requests[last.k] = "dropped"
    /\ populatedBy = fetchKey
    /\ store.points # << >>

\* C2: at most one exploration request is outstanding (issued, not disposed,
\* not completed) in every reachable state.
C2_AtMostOneOutstanding == Cardinality(Outstanding) <= 1

\* a re-query happened while the previous request was pending
C2_Witness ==
    /\ fetchKey >= 2
    /\ requests[fetchKey - 1] = "disposed"
    /\ Outstanding = {fetchKey}

\* C3: loading is never true while no request is outstanding.
C3_LoadingOnlyWhileOutstanding == store.loading => Outstanding # {}

\* C4: loading is true right after a request is issued and false right after
\* setInitialData is applied for a response.
C4_LoadingAroundRequest ==
    [][/\ (fetchKey' # fetchKey => store'.loading)
       /\ ((populatedBy' # populatedBy /\ populatedBy' # NoRequest) => ~store'.loading)]_vars

\* the response of the last issued request has just been written
C4_Witness ==
    /\ last.op = "response"
    /\ populatedBy = fetchKey
    /\ populatedBy = last.k
    /\ ~store.loading

\* C5: when the outstanding request fails, errorMessage becomes non-null and
\* loading becomes false, and the store is not populated from that request.
C5_FailureCaptured ==
    (last.op = "failure" /\ requests[last.k] = "failed")
        => (store.errorMessage # Null /\ ~store.loading /\ populatedBy # last.k)

(***************************************************************************)
(* Selection, highlight and color mode                                      *)
(***************************************************************************)
\* C6: every re-query leaves selectedClusterId = null, selectedEventIds = {} and
\* highlightedClusterId = null, whatever they were before.
C6_RequeryResetsSelection ==
    [][fetchKey' # fetchKey => Selection(store)' = EmptySelection]_vars

\* a re-query ran while a cluster was selected and another one highlighted
C6_Witness ==
    /\ last.op \in RequeryOps
    /\ last.before.selectedClusterId # Null
    /\ last.before.selectedEventIds # {}
    /\ last.before.highlightedClusterId # Null
    /\ Selection(store) = EmptySelection

ClusterOfRow(id) == CHOOSE c \in SeqToSet(store.clusters) : c.id = id

MemberSet(c) == {c.eventIds[i] : i \in 1..Len(c.eventIds)}

\* C7: a click on a cluster C that is not the selected one sets
\* selectedClusterId to C and selectedEventIds to the set of C's member event ids.
C7_ClickSelects ==
    [][(last'.op = "click" /\ store.selectedClusterId # last'.id)
         => /\ store'.selectedClusterId = last'.id
            /\ store'.selectedEventIds = MemberSet(ClusterOfRow(last'.id))]_vars

\* c1 (members e1, e2, e1) was clicked while c2 was selected
C7_Witness ==
    /\ last.op = "click"
    /\ last.id = "c1"
    /\ last.before.selectedClusterId = "c2"
    /\ store.selectedClusterId = "c1"
    /\ store.selectedEventIds = {"e1", "e2"}

\* the selected cluster has just been clicked
ClickedSelected == last.op = "click" /\ last.before.selectedClusterId = last.id

NothingSelected(sel) == sel.selectedClusterId = Null /\ sel.selectedEventIds = {}

\* C8 as stated: a click on the selected cluster clears the selection, and two
\* clicks in a row on an unselected cluster restore the selection state that
\* held before the first, whatever it was.
C8_TwoClicksIdentity ==
    /\ ClickedSelected => NothingSelected(store)
    /\ last.origin # << >> => Selection(store) = last.origin[1]

\* C8 amended: a click on the selected cluster clears the selection; two clicks
\* in a row on an unselected cluster C end in the empty selection, which is the
\* state before the first click exactly when nothing was selected then.
C8_TwoClicksClear ==
    /\ ClickedSelected => NothingSelected(store)
    /\ last.origin # << >> =>
          /\ NothingSelected(store)
          /\ Selection(store) = last.origin[1] <=> NothingSelected(last.origin[1])

\* c1 was clicked twice in a row while c2 was selected: nothing is selected now
C8_Witness ==
    /\ last.op = "click"
    /\ last.id = "c1"
    /\ last.origin # << >>
    /\ last.origin[1].selectedClusterId = "c2"
    /\ last.before.selectedClusterId = "c1"
    /\ store.selectedClusterId = Null
    /\ store.selectedEventIds = {}

\* C9: points, clusters and retrievals are all empty or all those of one response.
C9_DataFromOneResponse ==
    \/ (store.points = << >> /\ store.clusters = << >> /\ store.retrievals = << >>)
    \/ \E r \in Responses :
          /\ r.hasUMAPPoints
          /\ ~allSourceDataThrows(r)
          /\ store.points = allSourceData(r)
          /\ store.clusters = Delivered(r, variables).clusters
          /\ store.retrievals = r.contextRetrievals

\* the store was populated again after a re-query, with all three non-empty
C9_Witness ==
    /\ populatedBy >= 2
    /\ store.points # << >>
    /\ store.clusters # << >>
    /\ store.retrievals # << >>

\* C10: after a tab change colorMode is highlight iff the tab selected is
\* "configuration", and the same tab change applied again leaves colorMode as it is.
C10_ColorModeFollowsTab ==
    /\ [](last.op = "tabChange" => (store.colorMode = "highlight" <=> last.id = "configuration"))
    /\ [][(last.op = "tabChange" /\ last'.op = "tabChange" /\ last'.id = last.id)
            => store'.colorMode = store.colorMode]_vars

\* the configuration tab has just been selected
C10_Witness ==
    /\ last.op = "tabChange"
    /\ last.id = "configuration"
    /\ activeTab = "configuration"
    /\ store.colorMode = "highlight"

RequestInputs == QueryVariables(embeddingDimensionId, selectedTimestamp, store)

\* C12: every change of an input of the request (time window, UMAP or clustering
\* parameters, the metric's fetch flags, the dimension id) while the page is
\* mounted disposes the previous request and issues a new one with the new inputs.
C12_InputChangeRequeries ==
    [][(page = "mounted" /\ page' = "mounted" /\ RequestInputs' # RequestInputs)
         => /\ fetchKey' = fetchKey + 1
            /\ queryReference' = fetchKey'
            /\ requests'[fetchKey'] = "pending"
            /\ variables' = RequestInputs'
            /\ (queryReference # NoRequest => requests'[queryReference] # "pending")]_vars

\* C13: after teardown no query reference is held and no request is outstanding,
\* whether or not the request had resolved, and the store is never written again.
C13_TeardownDisposes ==
    /\ [](page = "unmounted" => (queryReference = NoRequest /\ Outstanding = {}))
    /\ [][page = "unmounted" => store' = store]_vars

\* the response of a request disposed by the teardown has arrived afterwards
C13_Witness ==
    /\ page = "unmounted"
    /\ last.op = "response"
    /\ requests[last.k] = "dropped"
    /\ store.points = << >>

\* C14: in every request issued, fetchDataQualityMetric is true exactly when the
\* metric is a dataQuality metric and fetchPerformanceMetric exactly when it is a
\* performance metric; for drift and retrieval both are false; never both true.
C14_FetchFlagsFollowVariant ==
    [][fetchKey' # fetchKey
         => /\ variables'.fetchDataQualityMetric = (getMetric(store').type = "dataQuality")
            /\ variables'.fetchPerformanceMetric = (getMetric(store').type = "performance")
            /\ (getMetric(store').type \in {"drift", "retrieval"}
                  => (~variables'.fetchDataQualityMetric /\ ~variables'.fetchPerformanceMetric))
            /\ ~(variables'.fetchDataQualityMetric /\ variables'.fetchPerformanceMetric)]_vars

\* a request was issued under a dataQuality metric
C14_Witness ==
    /\ fetchKey >= 1
    /\ last.op \in RequeryOps
    /\ getMetric(store).type = "dataQuality"
    /\ variables.fetchDataQualityMetric
    /\ ~variables.fetchPerformanceMetric

Displayed(k, r) ==
    /\ page = "mounted"
    /\ usePreloadedQuery(queryReference, k)
    /\ ResponseArrives(k, r)

\* ... and its effect writes the store
Rendered(k, r) == Displayed(k, r) /\ populatedBy' = k

\* the point records of a response, array by array
ResponsePoints(r) == r.data \o r.referenceData \o r.corpusData

\* C16: the normalized points are as many as the three arrays hold together:
\* the primary points first, then the reference points, then the corpus points,
\* each array in its own order.
C16_ConcatenationOrder ==
    [][\A k \in InFlight, r \in Responses :
          Rendered(k, r)
            => /\ Len(store'.points) = Len(r.data) + Len(r.referenceData) + Len(r.corpusData)
               /\ \A i \in DOMAIN r.data : store'.points[i].id = r.data[i].id
               /\ \A i \in DOMAIN r.referenceData :
                      store'.points[Len(r.data) + i].id = r.referenceData[i].id
               /\ \A i \in DOMAIN r.corpusData :
                      store'.points[Len(r.data) + Len(r.referenceData) + i].id
                          = r.corpusData[i].id]_vars

\* a response with points in all three arrays was normalized
C16_Witness ==
    /\ last.op = "response"
    /\ populatedBy = last.k
    /\ Len(store.points) = 3
    /\ store.points[1].id = "p4"
    /\ store.points[2].id = "p8"
    /\ store.points[3].id = "p5"

\* the array the i-th normalized point of response r comes from
OriginOf(i, r) ==
    IF i <= Len(r.data) THEN "primary"
    ELSE IF i <= Len(r.data) + Len(r.referenceData) THEN "reference"
    ELSE "corpus"

\* C17: every normalized point carries a sourceSet, primary, reference or corpus,
\* that names the array the point came from.
C17_SourceSetMatchesOrigin ==
    [][\A k \in InFlight, r \in Responses :
          Rendered(k, r)
            => \A i \in DOMAIN store'.points :
                  /\ "sourceSet" \in DOMAIN store'.points[i]
                  /\ store'.points[i].sourceSet = OriginOf(i, r)]_vars

\* the dimensionalities a session could be configured with, and that of a record
SessionDimensionalities == {2, 3}

TagDimension(coordinates) == IF coordinates.typename = "Point2D" THEN 2 ELSE 3

\* C18 as stated: whatever the dimensionality of the session, a response is
\* normalized exactly when the tag of every coordinate record matches it (a
\* Point3D record under a 2D session raises, a Point2D record under 3D raises).
C18_AcceptsIffTagMatchesSession ==
    [][\A d \in SessionDimensionalities, k \in InFlight, r \in Responses :
          Displayed(k, r)
            => ((populatedBy' = k)
                  <=> \A i \in DOMAIN ResponsePoints(r) :
                         TagDimension(ResponsePoints(r)[i].coordinates) = d)]_vars

\* C18 amended: a response is normalized exactly when every coordinate record is
\* a Point3D, whatever the session; a Point3D {x, y, z} becomes the position
\* [x, y, z]; any other record raises and the page goes down with the error.
C18_AcceptsIffPoint3D ==
    [][\A k \in InFlight, r \in Responses :
          Displayed(k, r)
            => /\ (populatedBy' = k)
                     <=> \A i \in DOMAIN ResponsePoints(r) :
                            ResponsePoints(r)[i].coordinates.typename = "Point3D"
               /\ populatedBy' = k
                     => \A i \in DOMAIN store'.points :
                           store'.points[i].position
                              = << ResponsePoints(r)[i].coordinates.x,
                                   ResponsePoints(r)[i].coordinates.y,
                                   ResponsePoints(r)[i].coordinates.z >>
               /\ populatedBy' # k => (page' = "crashed" /\ store' = store)]_vars

\* the Point3D record {1, 2, 3} was normalized to the position [1, 2, 3]
C18_Witness ==
    /\ last.op = "response"
    /\ populatedBy = last.k
    /\ store.points # << >>
    /\ store.points[1].coordinates = Point3D(1, 2, 3)
    /\ store.points[1].position = <<1, 2, 3>>

\* C19: the label of a cluster row is "{name} avg" for a dataQuality metric on
\* the dimension {name}, "Cluster Drift" for drift(euclideanDistance), the short
\* name of the metric for a performance metric and "% Query" for
\* retrieval(queryDistance).
C19_MetricLabel ==
    \A cluster \in ClusterRows :
        LET name == ClusterItemProps(store, cluster).metricName
            m == store.metric
        IN  /\ m.type = "dataQuality" => name = m.dimension.name \o " avg"
            /\ (m.type = "dataQuality" /\ m.dimension.name = "age") => name = "age avg"
            /\ (m.type = "drift" /\ m.metric = "euclideanDistance") => name = "Cluster Drift"
            /\ m.type = "performance" => name = getMetricShortNameByMetricKey(m.metric)
            /\ (m.type = "retrieval" /\ m.metric = "queryDistance") => name = "% Query"

\* cluster rows are shown under the dataQuality metric on the dimension age
C19_Witness ==
    /\ DisplayShown
    /\ store.metric.type = "dataQuality"
    /\ \E cluster \in ClusterRows : ClusterItemProps(store, cluster).metricName = "age avg"

\* C20: a cluster row shows the primary and reference value of the payload of the
\* active metric when the cluster has that payload, and no values when it has
\* not; for performance(accuracyScore) and the payload {0.9, 0.8} the row shows
\* the metric's short name and the pair (0.9, 0.8).
C20_MetricValues ==
    \A cluster \in ClusterRows :
        LET props == ClusterItemProps(store, cluster)
            m == store.metric
            payload == IF m.type = "dataQuality" THEN "dataQualityMetric"
                       ELSE IF m.type = "performance" THEN "performanceMetric"
                       ELSE Null
        IN  /\ payload \in DOMAIN cluster
                  => /\ props.primaryMetricValue = << cluster[payload].primaryValue >>
                     /\ props.referenceMetricValue = << cluster[payload].referenceValue >>
            /\ payload \notin DOMAIN cluster
                  => /\ props.primaryMetricValue = << >>
                     /\ props.referenceMetricValue = << >>
            /\ (m.type = "performance" /\ m.metric = "accuracyScore"
                   /\ "performanceMetric" \in DOMAIN cluster
                   /\ cluster.performanceMetric = [primaryValue |-> 9, referenceValue |-> 8])
                  => /\ props.metricName = getMetricShortNameByMetricKey("accuracyScore")
                     /\ props.primaryMetricValue = <<9>>
                     /\ props.referenceMetricValue = <<8>>

\* a cluster with the payload {0.9, 0.8} is shown under performance(accuracyScore)
C20_Witness ==
    /\ DisplayShown
    /\ store.metric.type = "performance"
    /\ store.metric.metric = "accuracyScore"
    /\ \E cluster \in ClusterRows :
          /\ "performanceMetric" \in DOMAIN cluster
          /\ cluster.performanceMetric = [primaryValue |-> 9, referenceValue |-> 8]
          /\ ClusterItemProps(store, cluster).primaryMetricValue = <<9>>
          /\ ClusterItemProps(store, cluster).referenceMetricValue = <<8>>

\* the combinations of variant and enum the resolver defines a label for
HandledCombination(m) ==
    \/ m.type = "dataQuality"
    \/ m.type = "drift" /\ m.metric = "euclideanDistance"
    \/ m.type = "performance"
    \/ m.type = "retrieval" /\ m.metric = "queryDistance"

\* C21: under a metric with no defined handling no cluster row is ever shown and
\* no label is undefined: the render of the first rows aborts the page.
C21_UnhandledMetricFailsFast ==
    /\ \A cluster \in ClusterRows :
          /\ HandledCombination(store.metric)
          /\ ClusterItemProps(store, cluster).metricName # Undefined
    /\ (last.op = "response" /\ populatedBy = last.k /\ store.clusters # << >>
           /\ ~HandledCombination(store.metric))
          => page = "crashed"

\* clusters arrived under a drift metric other than euclideanDistance
C21_Witness ==
    /\ last.op = "response"
    /\ populatedBy = last.k
    /\ store.clusters # << >>
    /\ store.metric.type = "drift"
    /\ ~HandledCombination(store.metric)
    /\ page = "crashed"

\* C22: dismissing an error notification sets errorMessage to null and leaves
\* every other field of the store (points, clusters, retrievals, selection,
\* highlight, loading, colorMode) as it was.
C22_DismissClearsOnlyError ==
    [][\A n \in notifications :
          DismissError(n)
            => /\ store'.errorMessage = Null
               /\ store' = [store EXCEPT !.errorMessage = Null]]_vars

\* an error was dismissed while points were shown and a cluster was selected
C22_Witness ==
    /\ last.op = "dismiss"
    /\ store.errorMessage = Null
    /\ store.points # << >>
    /\ store.selectedClusterId # Null
    /\ store.selectedEventIds # {}

\* no points, clusters, retrievals or selection in the store s
StoreEmpty(s) ==
    /\ s.points = << >>
    /\ s.clusters = << >>
    /\ s.retrievals = << >>
    /\ s.selectedClusterId = Null
    /\ s.selectedEventIds = {}

\* C23: the store is empty after the page is torn down and after the analyst
\* switches the embedding dimension: no points, clusters, retrievals or selection
\* of the previous dimension remain.
C23_ResetOnTeardownAndSwitch ==
    /\ [](page = "unmounted" => StoreEmpty(store))
    /\ [][embeddingDimensionId' # embeddingDimensionId => StoreEmpty(store')]_vars

\* the selected cluster and the selected events of the store s
SelectedPair(s) == <<s.selectedClusterId, s.selectedEventIds>>

\* C24: during a cluster click the store never holds the clicked cluster's id
\* with the previous event ids (or the reverse): every snapshot it holds has the
\* pair of before the click or the pair of after it.
C24_ClickOneStep ==
    [][\A cluster \in ClusterRows :
          ClusterClick(cluster)
            => \A i \in DOMAIN onClickSnapshots(store, cluster) :
                  SelectedPair(onClickSnapshots(store, cluster)[i])
                      \in {SelectedPair(store), SelectedPair(store')}]_vars

\* C25: pointer-enter on a row sets highlightedClusterId to the row's cluster and
\* pointer-leave sets it to null, both leaving the selection as it was; a click
\* leaves highlightedClusterId as it was.
C25_HighlightOrthogonal ==
    /\ last.op = "mouseEnter"
          => /\ store.highlightedClusterId = last.id
             /\ store.selectedClusterId = last.before.selectedClusterId
             /\ store.selectedEventIds = last.before.selectedEventIds
    /\ last.op = "mouseLeave"
          => /\ store.highlightedClusterId = Null
             /\ store.selectedClusterId = last.before.selectedClusterId
             /\ store.selectedEventIds = last.before.selectedEventIds
    /\ last.op = "click"
          => store.highlightedClusterId = last.before.highlightedClusterId

\* the pointer left a highlighted row while another cluster was selected
C25_Witness ==
    /\ last.op = "mouseLeave"
    /\ last.before.highlightedClusterId = last.id
    /\ store.highlightedClusterId = Null
    /\ store.selectedClusterId # Null
    /\ store.selectedClusterId # last.id
    /\ store.selectedEventIds # {}

CurrentPending ==
    /\ page = "mounted"
    /\ queryReference # NoRequest
    /\ requests[queryReference] = "pending"

\* C27: from the issue of a request to the write of its response into the store,
\* the write included, selectedClusterId is null, selectedEventIds is empty and
\* highlightedClusterId is null.
C27_NoSelectionWhilePending ==
    /\ CurrentPending => Selection(store) = EmptySelection
    /\ (last.op = "response" /\ populatedBy = last.k) => Selection(store) = EmptySelection

\* the response of a re-query has just been written, with clusters to click
C27_Witness ==
    /\ last.op = "response"
    /\ populatedBy = last.k
    /\ populatedBy >= 2
    /\ store.clusters # << >>
    /\ Selection(store) = EmptySelection

\* C28: whenever selectedClusterId is not null, the store's clusters hold a
\* cluster with that id and selectedEventIds is exactly its member set; whenever
\* it is null after a click or a reset, selectedEventIds is empty.
C28_SelectionNamesCluster ==
    /\ store.selectedClusterId # Null
          => \E c \in SeqToSet(store.clusters) :
                /\ c.id = store.selectedClusterId
                /\ store.selectedEventIds = MemberSet(c)
    /\ (last.op \in RequeryOps \cup {"click"} /\ store.selectedClusterId = Null)
          => store.selectedEventIds = {}

\* cluster c1 of the second response, whose members differ from those of the
\* first response's c1, is selected
C28_Witness ==
    /\ populatedBy >= 2
    /\ store.selectedClusterId = "c1"
    /\ store.selectedEventIds = {"e4"}
    /\ \E c \in SeqToSet(store.clusters) : c.id = "c1" /\ MemberSet(c) = {"e4"}

\* the request of the query reference is answered and its response is shown
CurrentAnswered ==
    /\ page = "mounted"
    /\ queryReference # NoRequest
    /\ requests[queryReference] = "answered"

\* C29: given that the backend eventually answers the request that stays the
\* last one, an outstanding request is eventually answered (unless the page is
\* left or goes down); and once the last request is answered, loading is false
\* and points, clusters and retrievals are exactly those of its response.
C29_LastRequestPopulates ==
    /\ [](CurrentAnswered
            => /\ ~store.loading
               /\ populatedBy = queryReference
               /\ \E r \in Responses :
                     /\ ~allSourceDataThrows(r)
                     /\ store.points = allSourceData(r)
                     /\ store.clusters = Delivered(r, variables).clusters
                     /\ store.retrievals = contextRetrievals(r))
    /\ (CurrentPending ~> (CurrentAnswered \/ page # "mounted"))

\* the last of several requests is answered and its points are in the store
C29_Witness ==
    /\ CurrentAnswered
    /\ queryReference >= 2
    /\ requests[queryReference - 1] = "dropped"
    /\ populatedBy = queryReference
    /\ ~store.loading
    /\ store.points # << >>

\* C30: while a request is outstanding its variables are those assembled from
\* the current settings (dimension id, time range, UMAP and clustering
\* parameters, metric), and while the store is populated the request that
\* populated it had the variables of the current settings.
C30_RequestMatchesSettings ==
    (Outstanding # {} \/ (CurrentAnswered /\ populatedBy = queryReference))
        => variables = RequestInputs

\* C31: the failure of the outstanding request leaves the page able to re-query,
\* and a parameter change made while errorMessage is not null clears
\* errorMessage, sets loading and issues a new request.
C31_FailureRecoverable ==
    /\ []((last.op = "failure" /\ requests[last.k] = "failed") => page = "mounted")
    /\ [][(store.errorMessage # Null /\ fetchKey' # fetchKey)
            => /\ store'.errorMessage = Null
               /\ store'.loading
               /\ requests'[fetchKey'] = "pending"]_vars

\* C32: when one point of any of the three arrays of a response is not a
\* Point3D, nothing of that response is written: the store keeps its points,
\* clusters and retrievals, and it is not populated by the request.
C32_MalformedAbortsResponse ==
    [][\A k \in InFlight, r \in Responses :
          (Displayed(k, r)
             /\ \E i \in DOMAIN ResponsePoints(r) :
                    ResponsePoints(r)[i].coordinates.typename # "Point3D")
            => /\ store' = store
               /\ populatedBy' = populatedBy
               /\ populatedBy' # k]_vars

\* a response with a Point2D record has arrived for the current request of a
\* re-query: the store is as the re-query left it
C32_Witness ==
    /\ last.op = "response"
    /\ last.k >= 2
    /\ page = "crashed"
    /\ requests[last.k] = "answered"
    /\ populatedBy = NoRequest
    /\ StoreEmpty(store)
    /\ store.loading

\* C33: when errorMessage goes from null to a message, a notification with
\* exactly that message and a Dismiss action is shown; a notification is emitted
\* only in a step that leaves errorMessage not null, and carries that message.
C33_NotificationOnError ==
    [][/\ (store.errorMessage = Null /\ store'.errorMessage # Null)
            => \E n \in notifications' :
                  n.message = store'.errorMessage /\ n.action = "Dismiss"
       /\ \A n \in notifications' \ notifications :
             /\ store'.errorMessage # Null
             /\ n.message = store'.errorMessage
             /\ n.action = "Dismiss"]_vars

\* the store has just reported an error and its notification is shown
C33_Witness ==
    /\ last.op = "storeError"
    /\ store.errorMessage = "failed to fetch"
    /\ \E n \in notifications : n.message = "failed to fetch" /\ n.action = "Dismiss"

\* C34: every normalized point has position = [x, y, z] of its coordinate record
\* and metaData.id = its eventId, and carries the raw point's id, eventId,
\* embeddingMetadata and eventMetadata unchanged.
C34_PointFields ==
    [][\A k \in InFlight, r \in Responses :
          Rendered(k, r)
            => \A i \in DOMAIN store'.points :
                  LET raw == ResponsePoints(r)[i]
                      point == store'.points[i]
                  IN  /\ point.position
                            = << raw.coordinates.x, raw.coordinates.y, raw.coordinates.z >>
                      /\ point.metaData = [id |-> raw.eventId]
                      /\ point.id = raw.id
                      /\ point.eventId = raw.eventId
                      /\ point.embeddingMetadata = raw.embeddingMetadata
                      /\ point.eventMetadata = raw.eventMetadata]_vars

\* the point p3 of event e3 at (4, 5, 6) was normalized
C34_Witness ==
    /\ last.op = "response"
    /\ populatedBy = last.k
    /\ Len(store.points) = 3
    /\ store.points[3].id = "p3"
    /\ store.points[3].position = <<4, 5, 6>>
    /\ store.points[3].metaData = [id |-> "e3"]
    /\ store.points[3].eventMetadata = [predictionId |-> "e3"]

C37_TimeWindow ==
    [][(fetchKey' # fetchKey)
          => /\ variables'.timeRange.end
                   = (IF selectedTimestamp' # NoTimestamp
                      THEN selectedTimestamp' ELSE PrimaryEndTime)
             /\ variables'.timeRange.start = variables'.timeRange.end - 2
             /\ variables'.timeRange.start < variables'.timeRange.end]_vars

\* a request was issued for a selected time slice
C37_Witness ==
    /\ last.op = "setSelectedTimestamp"
    /\ selectedTimestamp = 18
    /\ requests[fetchKey] = "pending"
    /\ variables.timeRange = [start |-> 16, end |-> 18]

\* C38: while the page is up the selection panel is on screen exactly when
\* selectedEventIds is not empty; a click on a cluster without members that is
\* not selected leaves selectedClusterId set to it with the panel hidden, and
\* a click on it while it is selected clears selectedClusterId.
C38_SelectionPanel ==
    /\ [](page = "mounted" => (SelectionPanelShown <=> store.selectedEventIds # {}))
    /\ [][\A cluster \in ClusterRows :
             (ClusterClick(cluster) /\ cluster.eventIds = << >>)
               => IF store.selectedClusterId # cluster.id
                  THEN /\ store'.selectedClusterId = cluster.id
                       /\ store'.selectedClusterId # Null
                       /\ ~SelectionPanelShown'
                  ELSE store'.selectedClusterId = Null]_vars

\* the cluster c3, which has no members, was clicked twice in a row: the first
\* click selected it with no event selected, the second cleared the selection
C38_Witness ==
    /\ page = "mounted"
    /\ last.op = "click"
    /\ last.id = "c3"
    /\ last.origin # << >>
    /\ last.before.selectedClusterId = "c3"
    /\ last.before.selectedEventIds = {}
    /\ store.selectedClusterId = Null
    /\ ~SelectionPanelShown

\* C36: the props of the store are the retrieval-troubleshooting defaults when
\* there are corpus inferences, with or without reference inferences, otherwise
\* the drift defaults when there are reference inferences, otherwise the
\* single-inference-set defaults; in each case umapParameters is the UMAP
\* configuration the server sent, and the store is created with it.
C36_DefaultProps ==
    /\ pointCloudProps.defaults
          = (IF inferences.corpusInferences # Null THEN "retrievalTroubleshooting"
             ELSE IF inferences.referenceInferences # Null THEN "drift"
             ELSE "singleInferenceSet")
    /\ pointCloudProps.umapParameters = ConfigUMAP
    /\ page = "created" => store.umapParameters = ConfigUMAP

\* a session with corpus and with reference inferences, before the first effect
C36_Witness ==
    /\ page = "created"
    /\ inferences.corpusInferences # Null
    /\ inferences.referenceInferences # Null
    /\ pointCloudProps.defaults = "retrievalTroubleshooting"
    /\ store.umapParameters = ConfigUMAP

====
